---- MODULE Spec2Model ----
(***************************************************************************)
(* Model of the AdminScanner screen of CathoLink: the handleScan pipeline  *)
(* (QR payload -> profile lookup -> same-day attendance query ->           *)
(* time-of-day status and session reconciliation -> insert -> email, push, *)
(* SMS -> reset timer), the React state it drives and the attendance       *)
(* table it appends to.                                                    *)
(*                                                                         *)
(* Time is an absolute instant in minutes, counted from 00:00 UTC of UTC   *)
(* day 0.  The browser's wall clock is the instant shifted by the zone     *)
(* offset tz; toISOString() is the instant read in UTC.  Every run of      *)
(* synchronous code between two awaits is one action and reads the clock   *)
(* once.                                                                   *)
(***************************************************************************)
EXTENDS Integers, Sequences, FiniteSets, TLC

\* ---------------------------------------------------------------- bounds
MaxDay      == 2      \* local calendar days 1..MaxDay are explored
MaxRecords  == 2      \* a table of this size takes no further row: the insert fails
MaxHandlers == 2      \* handleScan invocations that can be under way together

\* ------------------------------------------------------ inputs of the model
\* Zone offsets of the browser, minutes east of UTC: UTC and Asia/Manila.
TimezoneOffsets == {0, 480}

\* Wall-clock minutes of the day at which the clock is observed:
\* 05:00, 07:30, 09:00, 13:00, 17:30.
TimesOfDay == {300, 450, 540, 780, 1050}

NoUser     == "undefined"
NoBirthday == [y |-> 0, m |-> 0, d |-> 0]
NoStudent  == [user_id |-> NoUser, status |-> "none"]

\* The profiles table (read-only here).  s1 has an e-mail address and a
\* parent phone number; s2 has neither and was born on 15 March.
Profiles ==
  [ s1 |-> [email |-> TRUE,  parent_number |-> TRUE,
            birthday |-> [y |-> 2012, m |-> 7, d |-> 1]],
    s2 |-> [email |-> FALSE, parent_number |-> FALSE,
            birthday |-> [y |-> 2020, m |-> 3, d |-> 15]] ]

\* What the scanner can deliver: a result without rawValue, a rawValue that
\* is not JSON, JSON without user_id, JSON of a student, JSON of an unknown id.
ScanResults == {"no_rawValue", "not_json", "json_no_user_id", "s1", "s2", "u9"}

Handlers == 1..MaxHandlers

VARIABLES tz,             \* zone offset of the browser
          clock,          \* current instant
          attendance,     \* the attendance table, in insertion order
          scanning,       \* useState(true)
          scannedStudent, \* useState(null)
          isBirthday,     \* useState(false)
          rendered,       \* the state values captured by the last render
          handler         \* the handleScan invocations

vars == <<tz, clock, attendance, scanning, scannedStudent, isBirthday, rendered, handler>>

\* ------------------------------------------------------------ Date helpers
\* Date.prototype.getHours / getMinutes: wall-clock fields of an instant.
getHours(t)   == ((t + tz) % 1440) \div 60
getMinutes(t) == (t + tz) % 60
\* Local calendar day of an instant.
localDay(t)   == (t + tz) \div 1440
\* new Date().toISOString().split('T')[0]: the calendar day in UTC.
toISODate(t)  == t \div 1440
\* The instant at which the wall clock shows minute m of local day d.
InstantOf(d, m) == 1440 * d + m - tz
\* Calendar date of a local day: local day 1 is 2027-03-15.
DateOfDay(d) == [y |-> 2027, m |-> 3, d |-> 14 + d]


IsLeap(y) == (y % 4 = 0 /\ y % 100 # 0) \/ y % 400 = 0
DaysInMonth(y, m) ==
  IF m = 2 THEN (IF IsLeap(y) THEN 29 ELSE 28)
  ELSE IF m \in {4, 6, 9, 11} THEN 30 ELSE 31
\* The calendar date before a date.
PrevDate(date) ==
  IF date.d > 1 THEN [date EXCEPT !.d = @ - 1]
  ELSE IF date.m > 1 THEN [y |-> date.y, m |-> date.m - 1, d |-> DaysInMonth(date.y, date.m - 1)]
  ELSE [y |-> date.y - 1, m |-> 12, d |-> 31]

\* new Date('YYYY-MM-DD') is 00:00 UTC of that date; getMonth() and getDate()
\* read it on the wall clock: west of UTC that is the evening of the date
\* before (every zone offset is less than a day).
birthDateLocal(birthday) == IF tz < 0 THEN PrevDate(birthday) ELSE birthday

checkIfBirthday(birthday, t) ==
  IF birthday = NoBirthday THEN FALSE
  ELSE LET today     == DateOfDay(localDay(t))
           birthDate == birthDateLocal(birthday)
       IN  today.m = birthDate.m /\ today.d = birthDate.d

\* Mutant: the two inclusive bounds read as strict.
getAttendanceStatusMut(currentTime) ==
  IF currentTime >= 360 /\ currentTime < 480 THEN "present"
  ELSE IF currentTime >= 480 /\ currentTime < 720 THEN "late"
  ELSE IF currentTime >= 720 /\ currentTime < 795 THEN "present"
  ELSE IF currentTime > 1050 THEN "absent"
  ELSE "present"

\* getAttendanceStatus on currentTime = hours * 60 + minutes.
getAttendanceStatus(currentTime) ==
  IF currentTime >= 360 /\ currentTime < 480 THEN "present"
  ELSE IF currentTime >= 480 /\ currentTime < 720 THEN "late"
  ELSE IF currentTime >= 720 /\ currentTime <= 795 THEN "present"
  ELSE IF currentTime >= 1050 THEN "absent"
  ELSE "present"

currentTimeOf(t) == getHours(t) * 60 + getMinutes(t)

\* ------------------------------------------------- session reconciliation
morningScans(existing)   == {a \in existing : getHours(a.scanned_at) >= 6 /\ getHours(a.scanned_at) < 12}
afternoonScans(existing) == {a \in existing : getHours(a.scanned_at) >= 12 /\ getHours(a.scanned_at) < 16}
currentlyMorning(hours)   == hours >= 6 /\ hours < 12
currentlyAfternoon(hours) == hours >= 12 /\ hours < 16

\* Mutant: any record of the day rejects the scan.
ReconcileAnyExisting(existing, hours) ==
  IF existing = {} THEN "accepted"
  ELSE IF (currentlyMorning(hours) /\ afternoonScans(existing) # {})
          \/ (currentlyAfternoon(hours) /\ morningScans(existing) # {})
       THEN "rejected_both"
  ELSE "rejected_session"

\* Mutant: the other-session check looks at afternoon records only.
ReconcileMorningOnly(existing, hours) ==
  IF existing = {} THEN "accepted"
  ELSE IF currentlyMorning(hours) /\ afternoonScans(existing) # {}
       THEN "rejected_both"
  ELSE IF (currentlyMorning(hours) /\ morningScans(existing) # {})
          \/ (currentlyAfternoon(hours) /\ afternoonScans(existing) # {})
       THEN "rejected_session"
  ELSE "accepted"

\* Mutant: the two checks in the opposite order.
ReconcileSwapped(existing, hours) ==
  IF existing = {} THEN "accepted"
  ELSE IF (currentlyMorning(hours) /\ morningScans(existing) # {})
          \/ (currentlyAfternoon(hours) /\ afternoonScans(existing) # {})
       THEN "rejected_session"
  ELSE IF (currentlyMorning(hours) /\ afternoonScans(existing) # {})
          \/ (currentlyAfternoon(hours) /\ morningScans(existing) # {})
       THEN "rejected_both"
  ELSE "accepted"

\* Mutant: the other-session check is missing.
ReconcileNoBoth(existing, hours) ==
  IF existing = {} THEN "accepted"
  ELSE IF (currentlyMorning(hours) /\ morningScans(existing) # {})
          \/ (currentlyAfternoon(hours) /\ afternoonScans(existing) # {})
       THEN "rejected_session"
  ELSE "accepted"

\* The if / else-if of handleScan over the fetched records; a null result
\* of the query is the empty set here.
Reconcile(existing, hours) ==
  IF existing = {} THEN "accepted"
  ELSE IF (currentlyMorning(hours) /\ afternoonScans(existing) # {})
          \/ (currentlyAfternoon(hours) /\ morningScans(existing) # {})
       THEN "rejected_both"
  ELSE IF (currentlyMorning(hours) /\ morningScans(existing) # {})
          \/ (currentlyAfternoon(hours) /\ afternoonScans(existing) # {})
       THEN "rejected_session"
  ELSE "accepted"

\* The attendance query: the student's rows whose scanned_at lies between
\* `${today}T00:00:00` and `${today}T23:59:59`, a day the server reads in UTC.
AttendanceQuery(uid, today) ==
  {attendance[i] : i \in {j \in 1..Len(attendance) :
        attendance[j].student_id = uid /\ toISODate(attendance[j].scanned_at) = today}}

\* --------------------------------------------------------------- handlers
IdleHandler ==
  [pc |-> "idle", payload |-> "none", birthdayToday |-> FALSE, today |-> 0,
   queryOk |-> FALSE, existing |-> {}, classifiedAt |-> 0, status |-> "none",
   outcome |-> "none", error |-> "none", startLen |-> 0, row |-> 0,
   emailRes |-> "none", pushRes |-> "none", smsRes |-> "none",
   toasts |-> <<>>, timer |-> "none", delay |-> 0, birthday |-> NoBirthday]

user_id(payload) == IF payload \in DOMAIN Profiles \/ payload = "u9" THEN payload ELSE NoUser
profileOf(payload) == Profiles[user_id(payload)]

\* setTimeout(..., delay): the reset callbacks of lines 190, 206, 339, 356.
setTimeout(rec, kind, delay) == [rec EXCEPT !.pc = "timer", !.timer = kind, !.delay = delay]

ResetDelay(rec) == IF rec.birthdayToday THEN 5000 ELSE 3000

\* The catch block: destructive toast and the 2 s reset.
Catch(rec, msg) ==
  setTimeout([rec EXCEPT !.error = msg, !.toasts = Append(@, "Scan Failed")], "catch", 2000)

PushApplies(status) == status \in {"late", "absent", "half_day"}

\* The synchronous code from the SMS check to the next await.
ToSms(rec) ==
  IF profileOf(rec.payload).parent_number
  THEN [rec EXCEPT !.pc = "sms", !.smsRes = "pending"]
  ELSE setTimeout(rec, "reset", ResetDelay(rec))

\* The synchronous code from the push check to the next await.
ToPush(rec) ==
  IF PushApplies(rec.status)
  THEN [rec EXCEPT !.pc = "push", !.pushRes = "pending"]
  ELSE ToSms(rec)

\* The synchronous code from the e-mail check to the next await.
ToEmail(rec) ==
  IF profileOf(rec.payload).email
  THEN [rec EXCEPT !.pc = "email", !.emailRes = "pending"]
  ELSE ToPush(rec)

Init ==
  /\ tz \in TimezoneOffsets
  /\ clock = InstantOf(1, 450)
  /\ attendance = <<>>
  /\ scanning = TRUE
  /\ scannedStudent = NoStudent
  /\ isBirthday = FALSE
  /\ rendered = [scanning |-> TRUE, scannedStudent |-> NoStudent]
  /\ handler = [h \in Handlers |-> IdleHandler]

\* The wall clock moves on to a later observed minute.  A scan and its
\* reset delay last seconds, the observed minutes are hours apart: the
\* clock is read as standing still from a scan event until its reset timer
\* has fired, so the clock reads of one scan and the server's scanned_at
\* of its row agree.
Tick ==
  /\ \A h \in Handlers : handler[h].pc = "idle"
  /\ \E d \in 1..MaxDay, m \in TimesOfDay :
        /\ InstantOf(d, m) > clock
        /\ clock' = InstantOf(d, m)
  /\ UNCHANGED <<tz, attendance, scanning, scannedStudent, isBirthday, rendered, handler>>

\* The last render shows the current state.
RenderedCurrent == rendered = [scanning |-> scanning, scannedStudent |-> scannedStudent]

\* React re-renders the component with the current state.  The re-render is
\* queued as an immediate task by every setState: it runs before any network
\* response or timer callback (they wait for RenderedCurrent).
Render ==
  /\ ~RenderedCurrent
  /\ rendered' = [scanning |-> scanning, scannedStudent |-> scannedStudent]
  /\ UNCHANGED <<tz, clock, attendance, scanning, scannedStudent, isBirthday, handler>>

\* <Scanner onScan={handleScan}> is mounted by the last render.
ScannerMounted == rendered.scannedStudent = NoStudent /\ rendered.scanning

\* Mutant: a missing rawValue and unparsable text are not thrown on.
StartScanNoThrow(h, result) ==
  /\ ScannerMounted
  /\ rendered.scanning
  /\ handler[h].pc = "idle"
  /\ \A g \in Handlers : g < h => handler[g].pc # "idle"
  /\ scanning' = FALSE
  /\ handler' = [handler EXCEPT ![h] =
        [IdleHandler EXCEPT !.payload = result, !.startLen = Len(attendance), !.pc = "profile"]]
  /\ UNCHANGED <<tz, clock, attendance, scannedStudent, isBirthday, rendered>>

\* handleScan up to the first await: the gate (on the scanning value the
\* last render captured), setScanning(false), rawValue, JSON.parse, and the
\* profile request.
StartScan(h, result) ==
  /\ ScannerMounted
  /\ rendered.scanning
  /\ handler[h].pc = "idle"
  /\ \A g \in Handlers : g < h => handler[g].pc # "idle"
  /\ scanning' = FALSE
  /\ LET rec == [IdleHandler EXCEPT !.payload = result, !.startLen = Len(attendance)]
     IN  handler' = [handler EXCEPT ![h] =
            IF result = "no_rawValue" THEN Catch(rec, "Invalid scan result (missing rawValue)")
            ELSE IF result = "not_json" THEN Catch(rec, "JSON.parse")
            ELSE [rec EXCEPT !.pc = "profile"]]
  /\ UNCHANGED <<tz, clock, attendance, scannedStudent, isBirthday, rendered>>

\* Mutant: the null profile is not checked; reading profile.birthday throws.
ProfileRespNoCheck(h) ==
  /\ RenderedCurrent
  /\ handler[h].pc = "profile"
  /\ LET rec == handler[h]
     IN  IF user_id(rec.payload) \notin DOMAIN Profiles
         THEN /\ handler' = [handler EXCEPT ![h] = Catch(rec, "Cannot read properties of null")]
              /\ UNCHANGED isBirthday
         ELSE LET birthdayToday == checkIfBirthday(profileOf(rec.payload).birthday, clock)
              IN  /\ isBirthday' = birthdayToday
                  /\ handler' = [handler EXCEPT ![h] =
                        [rec EXCEPT !.pc = "query", !.birthdayToday = birthdayToday,
                                    !.birthday = profileOf(rec.payload).birthday,
                                    !.today = toISODate(clock)]]
  /\ UNCHANGED <<tz, clock, attendance, scanning, scannedStudent, rendered>>

\* The profile lookup returns: lines 137-156.
ProfileResp(h) ==
  /\ RenderedCurrent
  /\ handler[h].pc = "profile"
  /\ LET rec == handler[h]
     IN  IF user_id(rec.payload) \notin DOMAIN Profiles
         THEN /\ handler' = [handler EXCEPT ![h] = Catch(rec, "Student profile not found")]
              /\ UNCHANGED isBirthday
         ELSE LET birthdayToday == checkIfBirthday(profileOf(rec.payload).birthday, clock)
              IN  /\ isBirthday' = birthdayToday
                  /\ handler' = [handler EXCEPT ![h] =
                        [rec EXCEPT !.pc = "query", !.birthdayToday = birthdayToday,
                                    !.birthday = profileOf(rec.payload).birthday,
                                    !.today = toISODate(clock)]]
  /\ UNCHANGED <<tz, clock, attendance, scanning, scannedStudent, rendered>>

\* Mutant: the Rejected branches do not return.
AfterReconcileNoReturn(rec, decision) ==
  [rec EXCEPT !.pc = "insert"]

\* The code that follows the reconciliation: a Rejected scan shows its toast,
\* arms the reset and returns; an accepted one requests the insert.
AfterReconcile(rec, decision) ==
  IF decision = "accepted"
  THEN [rec EXCEPT !.pc = "insert"]
  ELSE setTimeout([rec EXCEPT !.toasts = Append(@, "Already Recorded")], "reject", ResetDelay(rec))

\* The attendance query returns (data, or null when it failed):
\* lines 158-215.
QueryResp(h, ok) ==
  /\ RenderedCurrent
  /\ handler[h].pc = "query"
  /\ LET rec      == handler[h]
         existing == IF ok THEN AttendanceQuery(user_id(rec.payload), rec.today) ELSE {}
         status   == getAttendanceStatus(currentTimeOf(clock))
         hours    == getHours(clock)
         decision == Reconcile(existing, hours)
         rec2     == [rec EXCEPT !.queryOk = ok, !.existing = existing,
                                 !.classifiedAt = clock, !.status = status,
                                 !.outcome = decision]
     IN  handler' = [handler EXCEPT ![h] = AfterReconcile(rec2, decision)]
  /\ UNCHANGED <<tz, clock, attendance, scanning, scannedStudent, isBirthday, rendered>>

\* Mutant: a scan accepted on top of earlier records of the day is a half day.
NewRowHalfDay(rec) ==
  [student_id |-> user_id(rec.payload), scanned_at |-> clock,
   status |-> IF rec.existing # {} THEN "half_day" ELSE rec.status,
   parent_notified |-> profileOf(rec.payload).parent_number]

\* Mutant: parent_notified records a delivered SMS.
NewRowDelivered(rec) ==
  [student_id |-> user_id(rec.payload), scanned_at |-> clock,
   status |-> rec.status, parent_notified |-> (rec.smsRes = "ok")]

\* The row handleScan inserts; scanned_at is the server's time of insertion.
NewRow(rec) ==
  [student_id |-> user_id(rec.payload), scanned_at |-> clock,
   status |-> rec.status, parent_notified |-> profileOf(rec.payload).parent_number]

\* Mutant: the error of the insert is not thrown.
InsertRespNoThrow(h, error) ==
  /\ RenderedCurrent
  /\ handler[h].pc = "insert"
  /\ error \/ Len(attendance) < MaxRecords
  /\ LET rec == [handler[h] EXCEPT !.error = IF error THEN "insert error" ELSE @]
     IN  /\ attendance' = IF error THEN attendance ELSE Append(attendance, NewRow(rec))
         /\ scannedStudent' = [user_id |-> user_id(rec.payload), status |-> rec.status]
         /\ handler' = [handler EXCEPT ![h] =
               ToEmail([rec EXCEPT !.row = IF error THEN 0 ELSE Len(attendance) + 1,
                                   !.toasts = Append(@, "Attendance Recorded")])]
  /\ UNCHANGED <<tz, clock, scanning, isBirthday, rendered>>

\* The insert returns: lines 226-255.
InsertResp(h, error) ==
  /\ RenderedCurrent
  /\ handler[h].pc = "insert"
  /\ error \/ Len(attendance) < MaxRecords
  /\ LET rec == handler[h]
     IN  IF error
         THEN /\ handler' = [handler EXCEPT ![h] = Catch(rec, "insert error")]
              /\ UNCHANGED <<attendance, scannedStudent>>
         ELSE /\ attendance' = Append(attendance, NewRow(rec))
              /\ scannedStudent' = [user_id |-> user_id(rec.payload), status |-> rec.status]
              /\ handler' = [handler EXCEPT ![h] =
                    ToEmail([rec EXCEPT !.row = Len(attendance) + 1,
                                        !.toasts = Append(@, "Attendance Recorded")])]
  /\ UNCHANGED <<tz, clock, scanning, isBirthday, rendered>>

\* The e-mail call is awaited outside any inner try: a rejection lands in
\* the catch block of handleScan.
AfterEmailThrow(rec) == Catch(rec, "send-email threw")

\* send-email returns {data, error} or rejects: lines 255-266.
EmailResp(h, res) ==
  /\ RenderedCurrent
  /\ handler[h].pc = "email"
  /\ handler[h].emailRes = "pending"
  /\ LET rec == [handler[h] EXCEPT !.emailRes = res]
     IN  handler' = [handler EXCEPT ![h] =
            IF res = "thrown" THEN AfterEmailThrow(rec) ELSE ToPush(rec)]
  /\ UNCHANGED <<tz, clock, attendance, scanning, scannedStudent, isBirthday, rendered>>

\* send-notification returns or rejects: lines 281-306.
PushResp(h, res) ==
  /\ RenderedCurrent
  /\ handler[h].pc = "push"
  /\ handler[h].pushRes = "pending"
  /\ handler' = [handler EXCEPT ![h] = ToSms([handler[h] EXCEPT !.pushRes = res])]
  /\ UNCHANGED <<tz, clock, attendance, scanning, scannedStudent, isBirthday, rendered>>

\* send-sms returns or rejects: lines 324-347.
SmsResp(h, res) ==
  /\ RenderedCurrent
  /\ handler[h].pc = "sms"
  /\ handler[h].smsRes = "pending"
  /\ LET rec == [handler[h] EXCEPT !.smsRes = res]
     IN  handler' = [handler EXCEPT ![h] = setTimeout(rec, "reset", ResetDelay(rec))]
  /\ UNCHANGED <<tz, clock, attendance, scanning, scannedStudent, isBirthday, rendered>>

\* A collaborator call that never completes.
Hang(h) ==
  /\ \/ /\ handler[h].pc = "email" /\ handler[h].emailRes = "pending"
        /\ handler' = [handler EXCEPT ![h].emailRes = "hung"]
     \/ /\ handler[h].pc = "push" /\ handler[h].pushRes = "pending"
        /\ handler' = [handler EXCEPT ![h].pushRes = "hung"]
     \/ /\ handler[h].pc = "sms" /\ handler[h].smsRes = "pending"
        /\ handler' = [handler EXCEPT ![h].smsRes = "hung"]
  /\ UNCHANGED <<tz, clock, attendance, scanning, scannedStudent, isBirthday, rendered>>

\* A reset timer fires: the callbacks of lines 190, 206, 339 and 356.
TimerFire(h) ==
  /\ RenderedCurrent
  /\ handler[h].pc = "timer"
  /\ scanning' = TRUE
  /\ isBirthday' = FALSE
  /\ scannedStudent' = IF handler[h].timer = "reset" THEN NoStudent ELSE scannedStudent
  /\ handler' = [handler EXCEPT ![h] = IdleHandler]
  /\ UNCHANGED <<tz, clock, attendance, rendered>>

Results == {"ok", "error", "thrown"}

\* A scan event of the scanner, delivered after React has re-rendered: the
\* scanner's next detection comes after the render queued by the last
\* setState.
ScanEvent(h, result) ==
  /\ RenderedCurrent
  /\ StartScan(h, result)

Next ==
  \/ Tick
  \/ Render
  \/ \E h \in Handlers, result \in ScanResults : ScanEvent(h, result)
  \/ \E h \in Handlers : ProfileResp(h)
  \/ \E h \in Handlers, ok \in BOOLEAN : QueryResp(h, ok)
  \/ \E h \in Handlers, error \in BOOLEAN : InsertResp(h, error)
  \/ \E h \in Handlers, res \in Results : EmailResp(h, res)
  \/ \E h \in Handlers, res \in Results : PushResp(h, res)
  \/ \E h \in Handlers, res \in Results : SmsResp(h, res)
  \/ \E h \in Handlers : TimerFire(h)

Spec == Init /\ [][Next]_vars

TypeOK ==
  /\ tz \in TimezoneOffsets
  /\ scanning \in BOOLEAN
  /\ isBirthday \in BOOLEAN
  /\ Len(attendance) <= MaxRecords
  /\ \A h \in Handlers : handler[h].pc \in
        {"idle", "profile", "query", "insert", "email", "push", "sms", "timer"}
\* Scan events that need not wait for the re-render: a second event can
\* reach the handleScan of the previous render, whose scanning is still true.
NextOverlap ==
  \/ Tick
  \/ Render
  \/ \E h \in Handlers, result \in ScanResults : StartScan(h, result)
  \/ \E h \in Handlers : ProfileResp(h)
  \/ \E h \in Handlers, ok \in BOOLEAN : QueryResp(h, ok)
  \/ \E h \in Handlers, error \in BOOLEAN : InsertResp(h, error)
  \/ \E h \in Handlers, res \in Results : EmailResp(h, res)
  \/ \E h \in Handlers, res \in Results : PushResp(h, res)
  \/ \E h \in Handlers, res \in Results : SmsResp(h, res)
  \/ \E h \in Handlers : TimerFire(h)

SpecOverlap == Init /\ [][NextOverlap]_vars

\* Spec with every attendance query returning its rows.
NextSeq ==
  \/ Tick
  \/ Render
  \/ \E h \in Handlers, result \in ScanResults : ScanEvent(h, result)
  \/ \E h \in Handlers : ProfileResp(h)
  \/ \E h \in Handlers : QueryResp(h, TRUE)
  \/ \E h \in Handlers, error \in BOOLEAN : InsertResp(h, error)
  \/ \E h \in Handlers, res \in Results : EmailResp(h, res)
  \/ \E h \in Handlers, res \in Results : PushResp(h, res)
  \/ \E h \in Handlers, res \in Results : SmsResp(h, res)
  \/ \E h \in Handlers : TimerFire(h)

SpecSeq == Init /\ [][NextSeq]_vars

\* SpecSeq where a collaborator call may also never complete, under the
\* fairness the runtime gives: React renders, every request that is not
\* hung returns, and every armed timer fires.
NextLive == NextSeq \/ \E h \in Handlers : Hang(h)

Fairness ==
  /\ WF_vars(Render)
  /\ \A h \in Handlers :
        /\ WF_vars(ProfileResp(h))
        /\ WF_vars(\E ok \in BOOLEAN : QueryResp(h, ok))
        /\ WF_vars(\E error \in BOOLEAN : InsertResp(h, error))
        /\ WF_vars(\E res \in Results : EmailResp(h, res))
        /\ WF_vars(\E res \in Results : PushResp(h, res))
        /\ WF_vars(\E res \in Results : SmsResp(h, res))
        /\ WF_vars(TimerFire(h))

FairSpec == Init /\ [][NextLive]_vars /\ Fairness

\* getAttendanceStatus applied to every minute of the day, in every zone.
InitStatus ==
  /\ tz \in TimezoneOffsets
  /\ clock \in {InstantOf(1, m) : m \in 0..1439}
  /\ attendance = <<>>
  /\ scanning = TRUE
  /\ scannedStudent = NoStudent
  /\ isBirthday = FALSE
  /\ rendered = [scanning |-> TRUE, scannedStudent |-> NoStudent]
  /\ handler = [h \in Handlers |-> IdleHandler]

ApplyStatus(h) ==
  /\ handler[h].status = "none"
  /\ handler' = [handler EXCEPT ![h].status = getAttendanceStatus(currentTimeOf(clock)),
                                ![h].classifiedAt = clock]
  /\ UNCHANGED <<tz, clock, attendance, scanning, scannedStudent, isBirthday, rendered>>

NextStatus == \E h \in Handlers : ApplyStatus(h)

SpecStatus == InitStatus /\ [][NextStatus]_vars

\* checkIfBirthday applied to stored birthdays on the observed days, in
\* browsers west of, at and east of UTC.
BirthdayZones == {-300, 0, 480}
Birthdays ==
  { NoBirthday,
    [y |-> 2020, m |-> 3, d |-> 15], [y |-> 2020, m |-> 3, d |-> 16],
    [y |-> 2020, m |-> 4, d |-> 15], [y |-> 2020, m |-> 3, d |-> 1],
    [y |-> 2012, m |-> 7, d |-> 1],  [y |-> 2021, m |-> 1, d |-> 1] }

InitBirthday ==
  /\ tz \in BirthdayZones
  /\ clock \in {InstantOf(d, m) : d \in 1..MaxDay, m \in TimesOfDay}
  /\ attendance = <<>>
  /\ scanning = TRUE
  /\ scannedStudent = NoStudent
  /\ isBirthday = FALSE
  /\ rendered = [scanning |-> TRUE, scannedStudent |-> NoStudent]
  /\ handler = [h \in Handlers |-> IdleHandler]

ApplyBirthday(h, birthday) ==
  /\ handler[h].payload = "none"
  /\ handler' = [handler EXCEPT ![h].payload = "birthday",
                                ![h].birthday = birthday,
                                ![h].classifiedAt = clock,
                                ![h].birthdayToday = checkIfBirthday(birthday, clock)]
  /\ UNCHANGED <<tz, clock, attendance, scanning, scannedStudent, isBirthday, rendered>>

NextBirthday == \E h \in Handlers, birthday \in Birthdays : ApplyBirthday(h, birthday)

SpecBirthday == InitBirthday /\ [][NextBirthday]_vars

\* ------------------------------------------------------------- properties
Classified(h) == handler[h].outcome # "none"
Rejected(h)   == handler[h].outcome \in {"rejected_both", "rejected_session"}
Inserted(h)   == handler[h].row # 0

Session(hours) ==
  IF currentlyMorning(hours) THEN "morning"
  ELSE IF currentlyAfternoon(hours) THEN "afternoon"
  ELSE "none"

\* Row i is a row of student uid made on local day d in session sess.
RowIn(i, uid, d, sess) ==
  /\ attendance[i].student_id = uid
  /\ localDay(attendance[i].scanned_at) = d
  /\ Session(getHours(attendance[i].scanned_at)) = sess

C2_RejectedOnceRecorded ==
  \A h \in Handlers : Classified(h) =>
    LET rec  == handler[h]
        sess == Session(getHours(rec.classifiedAt))
    IN  (/\ sess # "none"
         /\ \E i \in 1..rec.startLen :
               RowIn(i, user_id(rec.payload), localDay(rec.classifiedAt), sess))
        => (Rejected(h) /\ ~Inserted(h))

\* C3: when the scan is in the morning session and the fetched rows hold an
\* afternoon row, or it is in the afternoon session and they hold a morning
\* row, the scan is Rejected as "both sessions complete", also when the
\* current session has a row too; nothing is inserted.
C3_BothSessionsPrecedence ==
  \A h \in Handlers : Classified(h) =>
    LET rec   == handler[h]
        hours == getHours(rec.classifiedAt)
    IN  ((currentlyMorning(hours) /\ afternoonScans(rec.existing) # {})
         \/ (currentlyAfternoon(hours) /\ morningScans(rec.existing) # {}))
        => (rec.outcome = "rejected_both" /\ ~Inserted(h))

C3_Witness ==
  \E h \in Handlers :
    /\ handler[h].outcome = "rejected_both"
    /\ Session(getHours(handler[h].classifiedAt)) # "none"
    /\ morningScans(handler[h].existing) # {}
    /\ afternoonScans(handler[h].existing) # {}

\* C4 as claimed: an afternoon scan of a student whose fetched rows hold a
\* morning row and no afternoon row is accepted with the base status.
C4_AfternoonAfterMorningAccepted ==
  \A h \in Handlers : Classified(h) =>
    LET rec == handler[h]
    IN  (/\ currentlyAfternoon(getHours(rec.classifiedAt))
         /\ morningScans(rec.existing) # {}
         /\ afternoonScans(rec.existing) = {})
        => rec.outcome = "accepted"

\* C4 as amended: an afternoon scan of a student whose fetched rows hold a
\* morning row is Rejected as "both sessions complete" and inserts nothing;
\* it is accepted, with the base time-of-day status (present on [720,795])
\* as the status of the inserted row, exactly when the fetched rows hold
\* neither a morning nor an afternoon row.
C4_AfternoonAfterMorningRejected ==
  \A h \in Handlers :
    (Classified(h) /\ currentlyAfternoon(getHours(handler[h].classifiedAt))) =>
    LET rec == handler[h]
        t   == currentTimeOf(rec.classifiedAt)
    IN  /\ morningScans(rec.existing) # {} => (rec.outcome = "rejected_both" /\ ~Inserted(h))
        /\ rec.outcome = "accepted" <=>
              (morningScans(rec.existing) = {} /\ afternoonScans(rec.existing) = {})
        /\ rec.outcome = "accepted" =>
              /\ (720 <= t /\ t <= 795) => rec.status = "present"
              /\ Inserted(h) => attendance[rec.row].status = rec.status

C4_Witness ==
  \E h \in Handlers :
    /\ handler[h].outcome = "rejected_both"
    /\ currentTimeOf(handler[h].classifiedAt) = 780
    /\ \E a \in handler[h].existing : currentTimeOf(a.scanned_at) = 450
    /\ afternoonScans(handler[h].existing) = {}

\* C5: the table holds at most one row per student, per session, per day.
C5_OneRowPerSession ==
  \A i, j \in 1..Len(attendance) :
    (i < j /\ Session(getHours(attendance[i].scanned_at)) # "none") =>
      ~RowIn(j, attendance[i].student_id, localDay(attendance[i].scanned_at),
             Session(getHours(attendance[i].scanned_at)))

\* C6: when send-email has thrown for an inserted row, the push (status
\* late, absent or half_day) and the SMS (parent number present) have
\* still been dispatched, and the row is in the table.
C6_EmailThrowIsolated ==
  \A h \in Handlers : (Inserted(h) /\ handler[h].emailRes = "thrown") =>
    LET rec == handler[h]
    IN  /\ PushApplies(rec.status) => rec.pushRes # "none"
        /\ profileOf(rec.payload).parent_number => rec.smsRes # "none"
        /\ rec.row <= Len(attendance)
        /\ attendance[rec.row].student_id = user_id(rec.payload)

\* C7: a scan whose insert succeeded never shows "Scan Failed", whatever
\* the e-mail, push and SMS calls return or throw.
C7_NoScanFailedAfterInsert ==
  \A h \in Handlers : Inserted(h) =>
    \A i \in 1..Len(handler[h].toasts) : handler[h].toasts[i] # "Scan Failed"

\* C8: a collaborator call that never completes does not keep the other
\* channels of the same accepted scan from being invoked: once the row is
\* inserted, the push (when it applies) and the SMS (when it applies) are
\* eventually invoked, unless the e-mail call has thrown.
C8_LatencyIsolated ==
  \A h \in Handlers :
    /\ (Inserted(h) /\ PushApplies(handler[h].status))
          ~> (handler[h].pushRes # "none" \/ handler[h].emailRes = "thrown")
    /\ (Inserted(h) /\ profileOf(handler[h].payload).parent_number)
          ~> (handler[h].smsRes # "none" \/ handler[h].emailRes = "thrown")

\* C9: when every scan has run to its end and every reset timer has fired,
\* the screen is ready for the next scan: scanning is true and
\* scannedStudent is null.
C9_ReturnsToReady ==
  (\A h \in Handlers : handler[h].pc = "idle")
    => (scanning = TRUE /\ scannedStudent = NoStudent)

\* C10: a Rejected scan has returned without inserting a row and without
\* invoking the e-mail, push or SMS collaborator.
C10_RejectedHasNoEffect ==
  \A h \in Handlers : Rejected(h) =>
    /\ handler[h].pc = "timer"
    /\ ~Inserted(h)
    /\ handler[h].emailRes = "none"
    /\ handler[h].pushRes = "none"
    /\ handler[h].smsRes = "none"

C10_Witness ==
  \E h \in Handlers : /\ handler[h].outcome = "rejected_session"
                       /\ handler[h].pc = "timer"
                       /\ Len(attendance) = handler[h].startLen

NoNotification(h) ==
  /\ handler[h].emailRes = "none"
  /\ handler[h].pushRes = "none"
  /\ handler[h].smsRes = "none"

\* The scan of handler h is on the 'Scan Failed' path: the destructive
\* toast is the only one shown and the 2 s reset is armed.
ScanFailed(h) ==
  /\ handler[h].pc = "timer"
  /\ handler[h].timer = "catch"
  /\ handler[h].delay = 2000
  /\ handler[h].toasts = <<"Scan Failed">>

\* C11: for an inserted scan the push collaborator is invoked only when
\* the status is late, absent or half_day, and by the time the scan has
\* armed its reset it has been invoked whenever the status is one of them.
C11_PushIffLateAbsentHalfDay ==
  \A h \in Handlers : Inserted(h) =>
    /\ handler[h].pushRes # "none" => PushApplies(handler[h].status)
    /\ (handler[h].pc = "timer" /\ PushApplies(handler[h].status))
          => handler[h].pushRes # "none"

\* C12: for an inserted scan the SMS collaborator is invoked only when the
\* profile has a parent_number, and by the time the scan has armed its
\* reset it has been invoked whenever the profile has one, for any status.
C12_SmsIffParentNumber ==
  \A h \in Handlers : Inserted(h) =>
    /\ handler[h].smsRes # "none" => profileOf(handler[h].payload).parent_number
    /\ (handler[h].pc = "timer" /\ profileOf(handler[h].payload).parent_number)
          => handler[h].smsRes # "none"

\* C13: parent_notified of every row is the presence of the parent_number
\* of the row's student, whatever became of the notifications of its scan.
C13_ParentNotifiedIsPresence ==
  /\ \A i \in 1..Len(attendance) :
        attendance[i].parent_notified = Profiles[attendance[i].student_id].parent_number
  /\ \A h \in Handlers : Inserted(h) =>
        attendance[handler[h].row].parent_notified = profileOf(handler[h].payload).parent_number

C13_Witness ==
  \E h \in Handlers :
    /\ Inserted(h)
    /\ attendance[handler[h].row].parent_notified
    /\ handler[h].smsRes \in {"error", "thrown"}

\* C14: an insert that returns an error puts the scan on the 'Scan Failed'
\* path: no row is added, scannedStudent stays null, no e-mail, push or SMS
\* is dispatched, and the 2 s timer sets scanning back to true.
C14_InsertErrorIsScanFailed ==
  /\ [](\A h \in Handlers : handler[h].error = "insert error" =>
          /\ ScanFailed(h)
          /\ ~Inserted(h)
          /\ Len(attendance) = handler[h].startLen
          /\ scannedStudent = NoStudent
          /\ NoNotification(h))
  /\ [][\A h \in Handlers :
          (handler[h].error = "insert error" /\ handler'[h].pc = "idle")
             => (scanning' /\ scannedStudent' = NoStudent)]_vars

C14_Witness ==
  \E h \in Handlers : /\ handler[h].error = "insert error"
                       /\ handler[h].outcome = "accepted"
                       /\ handler[h].pc = "timer"

\* C15: a result without rawValue and a rawValue that is not JSON put the
\* scan on the 'Scan Failed' path at once: no profile lookup, attendance
\* query, classification, insert or notification is made, and the 2 s timer
\* sets scanning back to true.
C15_UnparsableIsScanFailed ==
  /\ [](\A h \in Handlers : handler[h].payload \in {"no_rawValue", "not_json"} =>
          /\ ScanFailed(h)
          /\ handler[h].birthday = NoBirthday
          /\ handler[h].today = 0
          /\ ~Classified(h)
          /\ handler[h].status = "none"
          /\ ~Inserted(h)
          /\ Len(attendance) = handler[h].startLen
          /\ NoNotification(h))
  /\ [][\A h \in Handlers :
          (handler[h].payload \in {"no_rawValue", "not_json"} /\ handler'[h].pc = "idle")
             => scanning']_vars

C15_Witness ==
  \E h \in Handlers : handler[h].payload = "not_json" /\ handler[h].pc = "timer"

InputErrors == {"Invalid scan result (missing rawValue)", "JSON.parse"}

\* C16: a payload that is JSON without user_id fails as an input error
\* ('Invalid scan result' / 'Invalid QR code'), without a row and without a
\* notification.
C16_MissingUserIdIsInputError ==
  \A h \in Handlers :
    (handler[h].payload = "json_no_user_id" /\ handler[h].error # "none") =>
      /\ handler[h].error \in InputErrors
      /\ ~Inserted(h)
      /\ NoNotification(h)

\* C17: a profile lookup that returns no profile fails the scan with
\* 'Student profile not found': the attendance query, the classification,
\* the insert and every notification are skipped, and the 2 s timer sets
\* scanning back to true.
C17_ProfileMissIsScanFailed ==
  /\ [](\A h \in Handlers : handler[h].payload = "u9" =>
          /\ handler[h].pc \in {"profile", "timer"}
          /\ handler[h].pc = "timer" =>
                (ScanFailed(h) /\ handler[h].error = "Student profile not found")
          /\ handler[h].today = 0
          /\ ~Classified(h)
          /\ handler[h].status = "none"
          /\ ~Inserted(h)
          /\ Len(attendance) = handler[h].startLen
          /\ NoNotification(h))
  /\ [][\A h \in Handlers :
          (handler[h].payload = "u9" /\ handler'[h].pc = "idle") => scanning']_vars

C17_Witness ==
  \E h \in Handlers : /\ handler[h].payload = "u9"
                       /\ handler[h].error = "Student profile not found"
                       /\ handler[h].delay = 2000

\* C18: when the attendance query has returned its rows, every row of the
\* student made earlier on the local calendar day of the scan is among them.
C18_QueryCoversLocalDay ==
  \A h \in Handlers : (Classified(h) /\ handler[h].queryOk) =>
    \A i \in 1..handler[h].startLen :
      (/\ attendance[i].student_id = user_id(handler[h].payload)
       /\ localDay(attendance[i].scanned_at) = localDay(handler[h].classifiedAt))
      => attendance[i] \in handler[h].existing

FailureOutcomes == InputErrors \cup {"Student profile not found", "insert error"}

\* C19: the reset timer a scan arms is 2000 ms after an input error, a
\* profile miss or an insert failure, and after an accepted or a Rejected
\* outcome 5000 ms when the student's birthday is today and 3000 ms
\* otherwise.
C19_ResetDelays ==
  \A h \in Handlers : handler[h].pc = "timer" =>
    IF handler[h].error \in FailureOutcomes
    THEN handler[h].delay = 2000
    ELSE handler[h].delay = IF handler[h].birthdayToday THEN 5000 ELSE 3000

\* C20: checkIfBirthday is true exactly when the month and the day of the
\* month of the stored birthday are those of today, whatever the year, and
\* false for a missing birthday.
C20_BirthdayIffMonthDay ==
  \A h \in Handlers : handler[h].payload = "birthday" =>
    LET today == DateOfDay(localDay(handler[h].classifiedAt))
        b     == handler[h].birthday
    IN  handler[h].birthdayToday <=> (b # NoBirthday /\ b.m = today.m /\ b.d = today.d)

\* C21: no row has status half_day: the status of every row is the
\* time-of-day status of the moment it was scanned, one of present, late
\* and absent, whatever records the student had.
C21_NeverHalfDay ==
  /\ \A i \in 1..Len(attendance) :
        /\ attendance[i].status \in {"present", "late", "absent"}
        /\ attendance[i].status = getAttendanceStatus(currentTimeOf(attendance[i].scanned_at))
  /\ \A h \in Handlers : handler[h].status \in {"none", "present", "late", "absent"}

C21_Witness ==
  \E h \in Handlers :
    /\ Inserted(h)
    /\ handler[h].existing # {}
    /\ attendance[handler[h].row].status = "absent"

\* C22: at most one scan is in the pipeline (from the accepted scan event
\* to the firing of its reset timer) at any time.
C22_OneScanAtATime ==
  \A g, h \in Handlers : (handler[g].pc # "idle" /\ handler[h].pc # "idle") => g = h

\* C23: a scan classified outside both session windows (hour < 6 or
\* hour >= 16) is never Rejected, whatever rows were fetched: it goes on to
\* the insert, and unless the insert itself fails its row is added.
C23_OutsideSessionsNeverRejected ==
  \A h \in Handlers :
    (Classified(h) /\ Session(getHours(handler[h].classifiedAt)) = "none") =>
      /\ handler[h].outcome = "accepted"
      /\ (handler[h].pc # "insert" /\ handler[h].error # "insert error") =>
            /\ Inserted(h)
            /\ attendance[handler[h].row].student_id = user_id(handler[h].payload)
            /\ attendance[handler[h].row].scanned_at = handler[h].classifiedAt

C23_Witness ==
  \E h \in Handlers :
    /\ Inserted(h)
    /\ Session(getHours(handler[h].classifiedAt)) = "none"
    /\ \E a \in handler[h].existing :
          /\ Session(getHours(a.scanned_at)) = "none"
          /\ localDay(a.scanned_at) = localDay(handler[h].classifiedAt)

\* The rows the scan of handler h fetched hold every earlier row of its
\* student on the local day of the scan.
FetchedComplete(h) ==
  \A i \in 1..handler[h].startLen :
    (/\ attendance[i].student_id = user_id(handler[h].payload)
     /\ localDay(attendance[i].scanned_at) = localDay(handler[h].classifiedAt))
    => attendance[i] \in handler[h].existing

\* The scan that made row j fetched every earlier row of its student on its
\* local day: they lie on the day the query of row j was bounded by.
RowFetchedComplete(j) ==
  \A i \in 1..(j - 1) :
    (/\ attendance[i].student_id = attendance[j].student_id
     /\ localDay(attendance[i].scanned_at) = localDay(attendance[j].scanned_at))
    => toISODate(attendance[i].scanned_at) = toISODate(attendance[j].scanned_at)

\* C24: with scans handled one at a time and the fetched rows complete, an
\* accepted afternoon scan means the student has no morning row that day
\* and an accepted morning scan means no afternoon row; so when every row
\* was made on a complete fetch, no student holds a morning and an
\* afternoon row of the same day.
C24_NeverBothSessions ==
  /\ \A h \in Handlers :
        (Classified(h) /\ handler[h].outcome = "accepted" /\ FetchedComplete(h)) =>
          LET uid == user_id(handler[h].payload)
              day == localDay(handler[h].classifiedAt)
              sess == Session(getHours(handler[h].classifiedAt))
          IN  /\ sess = "afternoon" =>
                   ~\E i \in 1..handler[h].startLen : RowIn(i, uid, day, "morning")
              /\ sess = "morning" =>
                   ~\E i \in 1..handler[h].startLen : RowIn(i, uid, day, "afternoon")
  /\ (\A j \in 1..Len(attendance) : RowFetchedComplete(j)) =>
        \A i, j \in 1..Len(attendance) :
          ~(/\ RowIn(i, attendance[i].student_id, localDay(attendance[i].scanned_at), "morning")
            /\ RowIn(j, attendance[i].student_id, localDay(attendance[i].scanned_at), "afternoon"))

C24_Witness ==
  \E h \in Handlers :
    /\ Inserted(h)
    /\ Session(getHours(handler[h].classifiedAt)) = "afternoon"
    /\ FetchedComplete(h)
    /\ handler[h].existing # {}
====
